---- MODULE Spec2Model ----
(***************************************************************************)
(* Model of the command-line-assistant daemon: the D-Bus authorization     *)
(* wrapper, the user, chat and history interfaces.                         *)
(***************************************************************************)
EXTENDS Integers, Sequences, FiniteSets, TLC

(***************************************************************************)
(* Bounds of the model.                                                    *)
(***************************************************************************)
MaxChats == 2

MaxHistories == 2

MaxInteractions == 3

\* Commands run in the captured shell.
MaxCommands == 2

\* Blocks of a terminal log that is parsed.
MaxBlocks == 3

(***************************************************************************)
(* Input domains.                                                          *)
(***************************************************************************)
\* D-Bus unique connection names of the callers.
Senders == {"s1", "s2"}

\* The unix uid the bus daemon reports for every connection.
SenderUid == [s \in Senders |-> IF s = "s1" THEN 1000 ELSE 1001]

Uids == {1000, 1001}

\* The internal user UUIDs, in the order in which user rows receive them.
UuidPool == <<"U1", "U2">>

UserIds == {"U1", "U2"}

Names == {"a", "b"}

Descriptions == {"d1", "d2"}

\* Texts are sequences of characters, so that `in` is a substring test.
Questions == {<<"a">>, <<"b">>}

Responses == {<< >>, <<"a">>}

Keywords == {<< >>, <<"a">>}

\* What the backend does with one submit call.
SubmitOutcomes == {"reply", "RequestFailedError"}

NoRow == 0

VARIABLES users, chats, histories, interactions, pending, last, deletedEver,
          http, term, source, server

vars == <<users, chats, histories, interactions, pending, last, deletedEver,
          http, term, source, server>>

db == <<users, chats, histories, interactions>>

\* The state outside the daemon's interfaces: the HTTP client, the terminal
\* recorder with its log, and the input of the chat command.
outside == <<http, term, source, server>>

(***************************************************************************)
(* Helpers on sequences.                                                   *)
(***************************************************************************)
RECURSIVE OrderedBy(_, _)
\* The indices of the set idx as a sequence, ascending by key[i], ties by i.
OrderedBy(idx, key) ==
  IF idx = {} THEN << >>
  ELSE LET first == CHOOSE i \in idx :
                      \A j \in idx : key[i] < key[j] \/ (key[i] = key[j] /\ i <= j)
       IN <<first>> \o OrderedBy(idx \ {first}, key)

CreatedAt(rows) == [i \in 1..Len(rows) |-> rows[i].created_at]

Range(s) == {s[i] : i \in 1..Len(s)}

\* Python's `keyword in text` on strings.
Contains(text, keyword) ==
  \E i \in 0..(Len(text) - Len(keyword)) :
    \A j \in 1..Len(keyword) : text[i + j] = keyword[j]

(***************************************************************************)
(* Log records.                                                            *)
(***************************************************************************)
\* A record of the module loggers; claimed and real are the two ids of its
\* arguments ("" when the record carries none).
LogRecord(level, audit, msg, claimed, real) ==
  [logger |-> "module", level |-> level, audit |-> audit, msg |-> msg,
   claimed |-> claimed, real |-> real]

\* A record of logging.getLogger("audit").
AuditLoggerRecord(level, msg, user) ==
  [logger |-> "audit", level |-> level, audit |-> FALSE, msg |-> msg,
   claimed |-> user, real |-> ""]

\* The observation of the last completed call: its arguments, the error it
\* raised ("" when it returned), what it returned, what it touched, what it
\* logged, and whether the bus daemon and the session manager answered.
Call(method, sender, user_id, chat_id, name) ==
  [method |-> method, sender |-> sender, user_id |-> user_id, chat_id |-> chat_id,
   name |-> name, error |-> "", ret |-> "", ret_text |-> << >>, ret_ids |-> << >>,
   ret_hist |-> << >>, effects |-> {}, logs |-> << >>, bus_ok |-> TRUE, map_ok |-> TRUE,
   filter |-> << >>]

NoCall == Call("none", "none", "", 0, "")

Raised(call, error, effects, logs) ==
  [call EXCEPT !.error = error, !.effects = effects, !.logs = logs]

\* The CreateChat call that has done its select_by_name and not yet its insert.
NoPending == [sender |-> "none", user_id |-> "", name |-> "", description |-> ""]

(***************************************************************************)
(* Session manager and repositories.                                       *)
(***************************************************************************)
\* Row of the users table for a unix uid, NoRow when there is none.
UserRow(us, uid) ==
  IF \E i \in 1..Len(us) : us[i] = uid
  THEN CHOOSE i \in 1..Len(us) : us[i] = uid
  ELSE NoRow

\* UserSessionManager.get_user_id: reads the row, inserts it on a miss.
get_user_id(us, uid) ==
  IF UserRow(us, uid) # NoRow
  THEN [users |-> us, uuid |-> UuidPool[UserRow(us, uid)]]
  ELSE [users |-> Append(us, uid), uuid |-> UuidPool[Len(us) + 1]]

IsLive(row) == row.deleted_at = 0

\* Timestamps are logical: the time of a table advances with every row inserted
\* into it, so rows are stamped in insertion order and a deletion is stamped
\* no earlier than the rows that exist.
Now(rows) == Len(rows) + 1

\* ChatRepository.select_all_by_id: the live chats of a user, oldest first.
select_all_by_id(cs, user_id) ==
  OrderedBy({i \in 1..Len(cs) : cs[i].user_id = user_id /\ IsLive(cs[i])}, CreatedAt(cs))

\* ChatRepository.select_by_name: the live chat (user_id, name), or NoRow.
select_by_name(cs, user_id, name) ==
  LET found == {i \in 1..Len(cs) :
                  cs[i].user_id = user_id /\ cs[i].name = name /\ IsLive(cs[i])}
  IN IF found = {} THEN NoRow ELSE CHOOSE i \in found : \A j \in found : i <= j

\* ChatRepository.select_latest_chat: the most recent live chat, or NoRow.
select_latest_chat(cs, user_id) ==
  LET live == select_all_by_id(cs, user_id)
  IN IF live = << >> THEN NoRow ELSE live[Len(live)]

\* Mutant: an insert without the uniqueness of the live (user_id, name).
Mut_insert_never_conflicts(cs, user_id, name) == FALSE

\* ChatRepository.insert refuses a second live row (user_id, name).
insert_conflicts(cs, user_id, name) == select_by_name(cs, user_id, name) # NoRow

\* ChatRepository.insert: the table after the insert and the id of the new row,
\* or ChatAlreadyExists and the table as it was.
insert(cs, user_id, name, description) ==
  IF insert_conflicts(cs, user_id, name)
  THEN [error |-> "ChatAlreadyExists", chats |-> cs, id |-> NoRow]
  ELSE [error |-> "", id |-> Len(cs) + 1,
        chats |-> Append(cs, [user_id |-> user_id, name |-> name,
                               description |-> description, created_at |-> Now(cs),
                               updated_at |-> Now(cs), deleted_at |-> 0])]

\* ChatRepository.delete: soft deletion of one chat row.
delete_chat(cs, id, now) == [cs EXCEPT ![id].deleted_at = now]

\* The cascade of ChatRepository.delete on the histories of the chat.
delete_chat_histories(hs, id, now) ==
  [i \in 1..Len(hs) |->
     IF hs[i].chat_id = id /\ IsLive(hs[i]) THEN [hs[i] EXCEPT !.deleted_at = now] ELSE hs[i]]

\* ... and on the interactions of these histories.
delete_chat_interactions(hs, ins, id, now) ==
  [i \in 1..Len(ins) |->
     IF hs[ins[i].history_id].chat_id = id /\ IsLive(ins[i])
     THEN [ins[i] EXCEPT !.deleted_at = now] ELSE ins[i]]

\* HistoryRepository.select_by_chat_id: the first live history of a chat, or NoRow.
select_by_chat_id(hs, chat_id) ==
  LET found == {i \in 1..Len(hs) : IsLive(hs[i]) /\ hs[i].chat_id = chat_id}
  IN IF found = {} THEN NoRow ELSE CHOOSE i \in found : \A j \in found : i <= j

\* HistoryRepository.select_all_history: the live histories of a user, oldest first.
select_all_history(hs, user_id) ==
  OrderedBy({i \in 1..Len(hs) : IsLive(hs[i]) /\ hs[i].user_id = user_id}, CreatedAt(hs))

\* HistoryModel.interactions: the live interactions of one history, oldest first.
interactions_of(ins, h) ==
  OrderedBy({i \in 1..Len(ins) : IsLive(ins[i]) /\ ins[i].history_id = h}, CreatedAt(ins))

\* HistoryManager.read / LocalHistory.read.
history_read(hs, user_id) == select_all_history(hs, user_id)

\* HistoryManager.write / LocalHistory.write: the history row of the chat is
\* created on the first write, the interaction row is appended to it.
history_write_histories(hs, chat_id, user_id, now) ==
  IF select_by_chat_id(hs, chat_id) # NoRow THEN hs
  ELSE Append(hs, [chat_id |-> chat_id, user_id |-> user_id,
                   created_at |-> now, deleted_at |-> 0])

history_write_interactions(hs, ins, chat_id, question, response, now) ==
  LET h == IF select_by_chat_id(hs, chat_id) # NoRow
           THEN select_by_chat_id(hs, chat_id) ELSE Len(hs) + 1
  IN Append(ins, [history_id |-> h, question |-> question, response |-> response,
                  created_at |-> now, deleted_at |-> 0])

\* HistoryManager.clear / LocalHistory.clear: soft deletion of the user's history.
history_clear_histories(hs, user_id, now) ==
  [i \in 1..Len(hs) |->
     IF hs[i].user_id = user_id /\ IsLive(hs[i]) THEN [hs[i] EXCEPT !.deleted_at = now] ELSE hs[i]]

history_clear_interactions(hs, ins, user_id, now) ==
  [i \in 1..Len(ins) |->
     IF hs[ins[i].history_id].user_id = user_id /\ IsLive(ins[i])
     THEN [ins[i] EXCEPT !.deleted_at = now] ELSE ins[i]]

(***************************************************************************)
(* dbus/interfaces/authorization.py                                        *)
(***************************************************************************)
\* DBusAuthorizationMixin._get_sender_unix_user_id; busOk is whether the bus
\* daemon answers GetConnectionUnixUser.
_get_sender_unix_user_id(sender, busOk) ==
  IF busOk
  THEN [error |-> "", uid |-> SenderUid[sender],
        logs |-> <<LogRecord("DEBUG", FALSE, "Retrieved Unix user ID", "", ToString(SenderUid[sender]))>>]
  ELSE [error |-> "PermissionError", uid |-> 0,
        logs |-> <<LogRecord("WARNING", FALSE, "Could not get caller Unix user ID", "", "")>>]

\* Mutant: the uid of the sender is fetched and never compared.
Mut_verify_unix_no_compare(sender, requested_unix_user_id, busOk) ==
  LET got == _get_sender_unix_user_id(sender, busOk)
  IN IF got.error # "" THEN [error |-> got.error, logs |-> got.logs]
     ELSE [error |-> "", logs |-> got.logs]

\* DBusAuthorizationMixin._verify_unix_user_authorization
_verify_unix_user_authorization(sender, requested_unix_user_id, busOk) ==
  LET got == _get_sender_unix_user_id(sender, busOk)
  IN IF got.error # "" THEN [error |-> got.error, logs |-> got.logs]
     ELSE IF requested_unix_user_id # got.uid
     THEN [error |-> "PermissionError",
           logs |-> Append(got.logs,
                      LogRecord("WARNING", TRUE, "Authorization failed",
                                ToString(requested_unix_user_id), ToString(got.uid)))]
     ELSE [error |-> "",
           logs |-> Append(got.logs,
                      LogRecord("DEBUG", FALSE, "Unix user authorization successful",
                                ToString(requested_unix_user_id), ""))]

\* Mutant: a failed mapping of the uid lets the call through (fails open).
Mut_verify_internal_fail_open(us, sender, requested_user_id, busOk, mapOk) ==
  LET got == _get_sender_unix_user_id(sender, busOk)
      mapped == get_user_id(us, got.uid)
  IN IF got.error # "" THEN [error |-> got.error, logs |-> got.logs, users |-> us]
     ELSE IF ~mapOk THEN [error |-> "", logs |-> got.logs, users |-> us]
     ELSE IF requested_user_id # mapped.uuid
     THEN [error |-> "PermissionError", users |-> mapped.users,
           logs |-> Append(got.logs,
                      LogRecord("WARNING", TRUE, "Authorization failed",
                                requested_user_id, mapped.uuid))]
     ELSE [error |-> "", users |-> mapped.users, logs |-> got.logs]

\* DBusAuthorizationMixin._verify_internal_user_authorization; mapOk is whether
\* session_manager.get_user_id returns.
_verify_internal_user_authorization(us, sender, requested_user_id, busOk, mapOk) ==
  LET got == _get_sender_unix_user_id(sender, busOk)
      mapped == get_user_id(us, got.uid)
  IN IF got.error # "" THEN [error |-> got.error, logs |-> got.logs, users |-> us]
     ELSE IF ~mapOk
     THEN [error |-> "PermissionError", users |-> us,
           logs |-> Append(got.logs,
                      LogRecord("WARNING", FALSE,
                                "Could not verify internal user authorization", "", ""))]
     ELSE IF requested_user_id # mapped.uuid
     THEN [error |-> "PermissionError", users |-> mapped.users,
           logs |-> Append(got.logs,
                      LogRecord("WARNING", TRUE, "Authorization failed",
                                requested_user_id, mapped.uuid))]
     ELSE [error |-> "", users |-> mapped.users,
           logs |-> Append(got.logs,
                      LogRecord("DEBUG", FALSE, "Internal user authorization successful",
                                requested_user_id, ""))]

(***************************************************************************)
(* daemon/http/adapters.py and daemon/http/query.py                        *)
(***************************************************************************)
\* RetryAdapter.__init__: max_retries, the total of urllib3's Retry.
max_retries == 3

\* status_forcelist of the Retry.
status_forcelist == {502, 503, 504}

\* Retry.RETRY_AFTER_STATUS_CODES: the Retry is built without
\* respect_retry_after_header, which urllib3 then takes as True.
RETRY_AFTER_STATUS_CODES == {413, 429, 503}

\* What the backend does with one HTTP attempt: a network error (status 0), or
\* a response with a status, with or without a Retry-After header, and a body
\* that holds data.text or not.
Answer(status, retry_after, text) ==
  [status |-> status, retry_after |-> retry_after, text |-> text]

NetworkError == Answer(0, FALSE, "")

BackendAnswers ==
  {NetworkError, Answer(200, FALSE, "ok"), Answer(200, FALSE, "")}
    \cup {Answer(st, FALSE, "") : st \in {404, 429, 500, 502, 503, 504}}
    \cup {Answer(429, TRUE, "")}

\* Mutant: every 5xx status is retried.
Mut_is_retry_server_errors(answer, total) ==
  answer = NetworkError \/ answer.status >= 500

\* Retry.is_retry for the POST of submit, and urlopen's retry of a request
\* that failed on the network; total is what is left of the Retry.
is_retry(answer, total) ==
  \/ answer = NetworkError
  \/ answer.status \in status_forcelist
  \/ total # 0 /\ answer.retry_after /\ answer.status \in RETRY_AFTER_STATUS_CODES

\* Mutant: the Retry gives up when its total reaches 0.
Mut_is_exhausted_at_zero(total) == total < 1

\* Retry.is_exhausted after Retry.increment has taken one from the total.
is_exhausted(total) == total < 0

RequestFailedMessage ==
  "There was a problem communicating with the server. Please, try again in a few minutes."

\* get_session: the session of submit sends through a RetryAdapter built with
\* its default arguments.
session_retries == max_retries

\* The HTTP client between two submit calls.
HttpIdle ==
  [state |-> "idle", total |-> session_retries, sent |-> << >>, ret |-> "", error |-> "",
   message |-> ""]

(***************************************************************************)
(* terminal/reader.py and terminal/parser.py                               *)
(***************************************************************************)
\* Bytes are one-character strings; "ESC" stands for one ANSI escape sequence.
PROMPT_MARKER == <<"%", "c">>

\* os.read(fd, 1024): the most bytes one read returns.
MaxChunk == 1024

Whitespace == {"\n"}

RECURSIVE strip(_)
\* str.strip: the text without the whitespace at its two ends.
strip(text) ==
  IF text = << >> THEN << >>
  ELSE IF Head(text) \in Whitespace THEN strip(Tail(text))
  ELSE IF text[Len(text)] \in Whitespace THEN strip(SubSeq(text, 1, Len(text) - 1))
  ELSE text

\* Whether pat starts at the first element of text.
StartsWith(text, pat) ==
  Len(pat) <= Len(text) /\ SubSeq(text, 1, Len(pat)) = pat

RECURSIVE replace(_, _)
\* bytes.replace(marker, b""): data without the occurrences of marker.
replace(data, marker) ==
  IF data = << >> THEN << >>
  ELSE IF StartsWith(data, marker)
  THEN replace(SubSeq(data, Len(marker) + 1, Len(data)), marker)
  ELSE <<Head(data)>> \o replace(Tail(data), marker)

\* The characters of the log: the braces of a JSON object, the text between
\* them (json.dumps escapes the newlines inside it), and the newline.
Token(kind, command, output) == [kind |-> kind, command |-> command, output |-> output]

LBrace == Token("{", << >>, << >>)

RBrace == Token("}", << >>, << >>)

Newline == Token("\n", << >>, << >>)

\* json.dumps(block): one line, without indentation.
json_dumps(block) == <<LBrace, Token("members", block.command, block.output), RBrace>>

\* The recorder of start_capturing before the first read; buffer is what the
\* shell has written to the pty and read has not taken yet, blocks what
\* write_json_block has written, typed the number of commands run and shown
\* their outputs; found is what a log that the recorder did not write holds.
RecorderInit ==
  [buffer |-> << >>, typed |-> 0, _in_command |-> TRUE, _current_command |-> << >>,
   _current_output |-> << >>, file |-> << >>, blocks |-> << >>, shown |-> << >>,
   found |-> << >>, exited |-> FALSE, parsed |-> << >>, parse_state |-> "none"]

\* TerminalRecorder.write_json_block
write_json_block(t) ==
  IF t._current_command # << >>
  THEN LET block == [command |-> strip(t._current_command),
                     output |-> strip(t._current_output)]
       IN [t EXCEPT !.file = @ \o json_dumps(block) \o <<Newline>>,
                    !.blocks = Append(@, block),
                    !._current_command = << >>, !._current_output = << >>]
  ELSE t

\* TerminalRecorder.read for the chunk data that os.read returned.
read(t, data) ==
  LET marked == Contains(data, PROMPT_MARKER)
      written == IF marked /\ ~t._in_command THEN write_json_block(t) ELSE t
      in_command == IF marked THEN TRUE
                    ELSE IF t._in_command /\ Contains(data, <<"\n">>) THEN FALSE
                    ELSE t._in_command
      kept == replace(data, PROMPT_MARKER)
  IN IF in_command
     THEN [written EXCEPT !._in_command = in_command, !._current_command = @ \o kept]
     ELSE [written EXCEPT !._in_command = in_command, !._current_output = @ \o kept]

RECURSIVE split(_, _)
\* str.split(sep): the pieces of text between the occurrences of sep.
split(text, sep) ==
  IF ~Contains(text, sep) THEN <<text>>
  ELSE IF StartsWith(text, sep)
  THEN <<<< >>>> \o split(SubSeq(text, Len(sep) + 1, Len(text)), sep)
  ELSE LET rest == split(Tail(text), sep)
       IN <<<<Head(text)>> \o rest[1]>> \o Tail(rest)

RECURSIVE strip_tokens(_)
\* file_contents.strip()
strip_tokens(text) ==
  IF text = << >> THEN << >>
  ELSE IF Head(text) = Newline THEN strip_tokens(Tail(text))
  ELSE IF text[Len(text)] = Newline THEN strip_tokens(SubSeq(text, 1, Len(text) - 1))
  ELSE text

\* The block with its braces added back.
with_braces(block) ==
  LET opened == IF block # << >> /\ Head(block) = LBrace THEN block ELSE <<LBrace>> \o block
  IN IF opened[Len(opened)] = RBrace THEN opened ELSE Append(opened, RBrace)

\* clean_ansi_sequences
clean_ansi_sequences(text) == strip(SelectSeq(text, LAMBDA b : b # "ESC"))

\* json.loads(block): the object of one JSON text, with the keys it has; the
\* whitespace around its members is skipped. A text of two objects, or one
\* that is no JSON, is a JSONDecodeError.
json_loads(block) ==
  LET text == SelectSeq(block, LAMBDA t : t # Newline)
  IN IF Len(text) = 3 /\ text[1] = LBrace /\ text[3] = RBrace /\ text[2].kind = "members"
     THEN [error |-> "", keys |-> {"command", "output"}, value |-> text[2]]
     ELSE IF Len(text) = 3 /\ text[1] = LBrace /\ text[3] = RBrace
             /\ text[2].kind = "command_only"
     THEN [error |-> "", keys |-> {"command"}, value |-> text[2]]
     ELSE IF text = <<LBrace, RBrace>>
     THEN [error |-> "", keys |-> {}, value |-> LBrace]
     ELSE [error |-> "JSONDecodeError", keys |-> {}, value |-> LBrace]

RECURSIVE parse_blocks(_, _)
\* The loop of parse_terminal_output over the blocks, result is what it has so
\* far: only JSONDecodeError is caught.
parse_blocks(file_contents, result) ==
  IF file_contents = << >> THEN [error |-> "", result |-> result]
  ELSE LET loaded == json_loads(with_braces(Head(file_contents)))
           parsed == [command |-> clean_ansi_sequences(loaded.value.command),
                      output |-> clean_ansi_sequences(loaded.value.output)]
       IN IF loaded.error # "" THEN [error |-> "", result |-> result]
          ELSE IF ~({"command", "output"} \subseteq loaded.keys)
          THEN [error |-> "KeyError", result |-> result]
          ELSE IF parsed.output = <<"e", "x", "i", "t">>
          THEN parse_blocks(Tail(file_contents), result)
          ELSE parse_blocks(Tail(file_contents), Append(result, parsed))

\* parse_terminal_output on the contents of the log.
parse_terminal_output(file) ==
  parse_blocks(split(strip_tokens(file), <<Newline, RBrace, Newline, LBrace>>), << >>)

(***************************************************************************)
(* commands/chat.py: the question sent for the sources the user gave       *)
(***************************************************************************)
\* Texts are sequences of words; Space is the blank an f-string puts between two.
Space == <<" ">>

NoInputMessage == "No input provided. Please provide input via file, stdin, or direct query."

\* What _get_input_source does: returns a text, or raises; warned when it
\* rendered the warning that stdin is ignored.
SourceReturned(text, warned) == [state |-> "returned", ret |-> text, error |-> "", message |-> "", warned |-> warned]

SourceRaised(error, message) == [state |-> "raised", ret |-> << >>, error |-> error, message |-> message, warned |-> FALSE]

\* Mutant: rule 7 (query and last output) is tried before rule 8.
Mut_get_input_source_rule7_first(query, stdin, attachment, last_output) ==
  IF query # << >> /\ stdin # << >> /\ attachment # << >> /\ last_output # << >>
  THEN SourceReturned(query \o Space \o attachment, TRUE)
  ELSE IF query # << >> /\ last_output # << >>
  THEN SourceReturned(query \o Space \o last_output, FALSE)
  ELSE IF query # << >> /\ attachment # << >> /\ last_output # << >>
  THEN SourceReturned(query \o Space \o attachment \o Space \o last_output, FALSE)
  ELSE IF query # << >> /\ attachment # << >>
  THEN SourceReturned(query \o Space \o attachment, FALSE)
  ELSE IF stdin # << >> /\ attachment # << >>
  THEN SourceReturned(stdin \o Space \o attachment, FALSE)
  ELSE IF stdin # << >> /\ query # << >>
  THEN SourceReturned(query \o Space \o stdin, FALSE)
  ELSE LET sources == SelectSeq(<<query, stdin, attachment, last_output>>,
                                LAMBDA src : src # << >>)
       IN IF sources # << >> THEN SourceReturned(Head(sources), FALSE)
          ELSE SourceRaised("ValueError", NoInputMessage)

\* BaseChatQuestionOperation._get_input_source
_get_input_source(query, stdin, attachment, last_output) ==
  IF query # << >> /\ stdin # << >> /\ attachment # << >> /\ last_output # << >>
  THEN SourceReturned(query \o Space \o attachment, TRUE)
  ELSE IF query # << >> /\ attachment # << >> /\ last_output # << >>
  THEN SourceReturned(query \o Space \o attachment \o Space \o last_output, FALSE)
  ELSE IF query # << >> /\ last_output # << >>
  THEN SourceReturned(query \o Space \o last_output, FALSE)
  ELSE IF query # << >> /\ attachment # << >>
  THEN SourceReturned(query \o Space \o attachment, FALSE)
  ELSE IF stdin # << >> /\ attachment # << >>
  THEN SourceReturned(stdin \o Space \o attachment, FALSE)
  ELSE IF stdin # << >> /\ query # << >>
  THEN SourceReturned(query \o Space \o stdin, FALSE)
  ELSE LET sources == SelectSeq(<<query, stdin, attachment, last_output>>,
                                LAMBDA src : src # << >>)
       IN IF sources # << >> THEN SourceReturned(Head(sources), FALSE)
          ELSE SourceRaised("ValueError", NoInputMessage)

\* No question has been asked: the four sources, and no call made yet.
NoSource ==
  [query |-> << >>, stdin |-> << >>, attachment |-> << >>, last_output |-> << >>,
   call |-> [state |-> "none", ret |-> << >>, error |-> "", message |-> "", warned |-> FALSE]]

(***************************************************************************)
(* dbus/server.py                                                          *)
(***************************************************************************)
\* The calls serve makes on the bus before it runs the event loop, in order.
ServeSteps == <<"publish_chat", "publish_history", "register_chat", "register_history">>

\* serve has been entered: calls are the bus calls that returned, on_bus what
\* is published or registered on the bus, loop_runs and disconnects the number
\* of calls of loop.run and of SYSTEM_BUS.disconnect.
ServeInit ==
  [state |-> "starting", calls |-> << >>, on_bus |-> {}, connected |-> TRUE,
   loop_runs |-> 0, disconnects |-> 0]

\* Mutant: serve has no finally clause.
Mut_serve_no_finally(s) == s

\* The finally clause of serve: SYSTEM_BUS.disconnect gives back the names and
\* the objects and closes the connection.
serve_finally(s) ==
  [s EXCEPT !.disconnects = @ + 1, !.on_bus = {}, !.connected = FALSE]

\* Mutant: the event loop is run once the objects are published.
Mut_startup_done_published(s) == Len(s.calls) >= 2

\* Whether every call of the startup has returned.
startup_done(s) == s.calls = ServeSteps

(***************************************************************************)
(* logger.py: where a record is written                                    *)
(***************************************************************************)
\* The levels of the logging module.
LevelNo == [DEBUG |-> 10, INFO |-> 20, WARNING |-> 30, ERROR |-> 40, CRITICAL |-> 50]

\* config.logging.level, by default.
root_level == "INFO"

\* LOGGING_CONFIG_DICTIONARY["loggers"]: the level of a logger and its
\* handlers; a module logger has none of its own and propagates to root.
logger_level(name) == IF name = "audit" THEN "INFO" ELSE root_level

logger_handlers(name) ==
  IF name = "audit" THEN {"audit_file", "audit_journald"} ELSE {"console"}

\* LOGGING_CONFIG_DICTIONARY["handlers"]: the audit formatter writes the audit
\* stream, the default formatter the operational log.
handler_channel(handler) ==
  IF handler \in {"audit_file", "audit_journald"} THEN "audit" ELSE "operational"

\* The handlers that write the record: no handler and no logger has a filter.
handled_by(record) ==
  IF LevelNo[record.level] >= LevelNo[logger_level(record.logger)]
  THEN logger_handlers(record.logger)
  ELSE {}

(***************************************************************************)
(* Initial state: an empty database, no call in progress.                  *)
(***************************************************************************)
Init ==
  /\ users = << >>
  /\ chats = << >>
  /\ histories = << >>
  /\ interactions = << >>
  /\ pending = NoPending
  /\ last = NoCall
  /\ deletedEver = {}
  /\ http = HttpIdle
  /\ term = RecorderInit
  /\ source = NoSource
  /\ server = ServeInit

(***************************************************************************)
(* dbus/interfaces/user.py                                                 *)
(***************************************************************************)
\* UserInterface.GetUserId under require_user_authorization("effective_user_id").
GetUserId(sender, effective_user_id, busOk, mapOk) ==
  LET call == [Call("GetUserId", sender, ToString(effective_user_id), 0, "")
                 EXCEPT !.bus_ok = busOk, !.map_ok = mapOk]
      auth == _verify_unix_user_authorization(sender, effective_user_id, busOk)
      got == get_user_id(users, effective_user_id)
  IN /\ UNCHANGED <<outside, chats, histories, interactions, pending, deletedEver>>
     /\ IF auth.error # ""
        THEN /\ last' = Raised(call, auth.error, {}, auth.logs)
             /\ UNCHANGED users
        ELSE IF ~mapOk
        THEN /\ last' = Raised(call, "Exception", {"body"}, auth.logs)
             /\ UNCHANGED users
        ELSE /\ users' = got.users
             /\ last' = [call EXCEPT !.ret = got.uuid, !.logs = auth.logs,
                            !.effects = {"body", "user_read"} \cup
                               (IF got.users # users THEN {"user_write"} ELSE {})]

\* require_user_authorization.wrapper around a method whose user id is a string:
\* the method runs only when _verify_internal_user_authorization returns.
ProtectedMethod(sender, user_id, busOk, mapOk) ==
  LET call == [Call("ProtectedMethod", sender, user_id, 0, "")
                 EXCEPT !.bus_ok = busOk, !.map_ok = mapOk]
      auth == _verify_internal_user_authorization(users, sender, user_id, busOk, mapOk)
  IN /\ UNCHANGED <<outside, chats, histories, interactions, pending, deletedEver>>
     /\ users' = auth.users
     /\ IF auth.error # ""
        THEN last' = Raised(call, auth.error, {}, auth.logs)
        ELSE last' = [call EXCEPT !.logs = auth.logs, !.effects = {"body"}]

(***************************************************************************)
(* dbus/interfaces/chat.py                                                 *)
(***************************************************************************)
ChatInterface_GetAllChatFromUser(sender, user_id) ==
  LET call == Call("GetAllChatFromUser", sender, user_id, 0, "")
      result == select_all_by_id(chats, user_id)
  IN /\ last' = [call EXCEPT !.ret_ids = result, !.effects = {"db_read"}]
     /\ UNCHANGED <<outside, db, pending, deletedEver>>

RECURSIVE delete_each(_, _, _)
\* The loop of DeleteAllChatForUser over the chats it selected.
delete_each(cs, ids, now) ==
  IF ids = << >> THEN cs ELSE delete_each(delete_chat(cs, ids[1], now), Tail(ids), now)

RECURSIVE delete_each_histories(_, _, _)
delete_each_histories(hs, ids, now) ==
  IF ids = << >> THEN hs
  ELSE delete_each_histories(delete_chat_histories(hs, ids[1], now), Tail(ids), now)

RECURSIVE delete_each_interactions(_, _, _, _)
delete_each_interactions(hs, ins, ids, now) ==
  IF ids = << >> THEN ins
  ELSE delete_each_interactions(hs, delete_chat_interactions(hs, ins, ids[1], now),
                                Tail(ids), now)

ChatInterface_DeleteAllChatForUser(sender, user_id) ==
  LET call == Call("DeleteAllChatForUser", sender, user_id, 0, "")
      all_chats == select_all_by_id(chats, user_id)
  IN /\ UNCHANGED <<outside, users, pending>>
     /\ IF all_chats = << >>
        THEN /\ last' = Raised(call, "ChatNotFoundError", {"db_read"}, << >>)
             /\ UNCHANGED <<chats, histories, interactions, deletedEver>>
        ELSE /\ chats' = delete_each(chats, all_chats, Now(chats))
             /\ histories' = delete_each_histories(histories, all_chats, Now(histories))
             /\ interactions' = delete_each_interactions(histories, interactions, all_chats,
                                                       Now(interactions))
             /\ deletedEver' = deletedEver \cup Range(all_chats)
             /\ last' = [call EXCEPT !.effects = {"db_read", "db_write"}]

\* ChatInterface.DeleteAllChatForUser when ChatRepository.delete raises for
\* the chat after the first done of them: each delete before it has ended its
\* own session, and the exception leaves the method.
ChatInterface_DeleteAllChatForUser_raises(sender, user_id, done) ==
  LET call == Call("DeleteAllChatForUser", sender, user_id, 0, "")
      all_chats == select_all_by_id(chats, user_id)
      deleted == SubSeq(all_chats, 1, done)
  IN /\ UNCHANGED <<outside, users, pending>>
     /\ done < Len(all_chats)
     /\ chats' = delete_each(chats, deleted, Now(chats))
     /\ histories' = delete_each_histories(histories, deleted, Now(histories))
     /\ interactions' = delete_each_interactions(histories, interactions, deleted,
                                               Now(interactions))
     /\ deletedEver' = deletedEver \cup Range(deleted)
     /\ last' = Raised(call, "Exception",
                       IF done = 0 THEN {"db_read"} ELSE {"db_read", "db_write"}, << >>)

ChatInterface_DeleteChatForUser(sender, user_id, name) ==
  LET call == Call("DeleteChatForUser", sender, user_id, 0, name)
      chat == select_by_name(chats, user_id, name)
  IN /\ UNCHANGED <<outside, users, pending>>
     /\ IF chat = NoRow
        THEN /\ last' = Raised(call, "ChatNotFoundError", {"db_read"}, << >>)
             /\ UNCHANGED <<chats, histories, interactions, deletedEver>>
        ELSE /\ chats' = delete_chat(chats, chat, Now(chats))
             /\ histories' = delete_chat_histories(histories, chat, Now(histories))
             /\ interactions' = delete_chat_interactions(histories, interactions, chat,
                                                       Now(interactions))
             /\ deletedEver' = deletedEver \cup {chat}
             /\ last' = [call EXCEPT !.chat_id = chat, !.effects = {"db_read", "db_write"}]

ChatInterface_GetLatestChatFromUser(sender, user_id) ==
  LET call == Call("GetLatestChatFromUser", sender, user_id, 0, "")
      result == select_latest_chat(chats, user_id)
  IN /\ UNCHANGED <<outside, db, pending, deletedEver>>
     /\ IF result = NoRow
        THEN last' = Raised(call, "AttributeError", {"db_read"}, << >>)
        ELSE last' = [call EXCEPT !.ret_ids = <<result>>, !.effects = {"db_read"}]

ChatInterface_GetChatId(sender, user_id, name) ==
  LET call == Call("GetChatId", sender, user_id, 0, name)
      result == select_by_name(chats, user_id, name)
  IN /\ UNCHANGED <<outside, db, pending, deletedEver>>
     /\ IF result = NoRow
        THEN last' = Raised(call, "ChatNotFoundError", {"db_read"}, << >>)
        ELSE last' = [call EXCEPT !.ret_ids = <<result>>, !.effects = {"db_read"}]

\* Mutant: CreateChat overwrites the description of the chat it finds.
Mut_CreateChat_upsert(sender, user_id, name, description) ==
  LET call == Call("CreateChat", sender, user_id, 0, name)
      result == select_by_name(chats, user_id, name)
      identifier == insert(chats, user_id, name, description)
  IN /\ UNCHANGED <<outside, users, histories, interactions, pending, deletedEver>>
     /\ IF result # NoRow
        THEN /\ last' = [call EXCEPT !.ret_ids = <<result>>, !.effects = {"db_read"}]
             /\ chats' = [chats EXCEPT ![result].description = description,
                                       ![result].updated_at = Now(chats)]
        ELSE /\ identifier.error = ""
             /\ Len(chats) < MaxChats
             /\ chats' = identifier.chats
             /\ last' = [call EXCEPT !.ret_ids = <<identifier.id>>,
                            !.effects = {"db_read", "db_write"}]

\* Mutant: CreateChat revives the soft-deleted chat of the same name.
Mut_CreateChat_revives(sender, user_id, name, description) ==
  LET call == Call("CreateChat", sender, user_id, 0, name)
      result == select_by_name(chats, user_id, name)
      gone == {i \in 1..Len(chats) : chats[i].user_id = user_id /\ chats[i].name = name}
      identifier == insert(chats, user_id, name, description)
  IN /\ UNCHANGED <<outside, users, histories, interactions, pending, deletedEver>>
     /\ IF result # NoRow
        THEN /\ last' = [call EXCEPT !.ret_ids = <<result>>, !.effects = {"db_read"}]
             /\ UNCHANGED chats
        ELSE IF gone # {}
        THEN LET old == CHOOSE i \in gone : TRUE
             IN /\ chats' = [chats EXCEPT ![old].deleted_at = 0]
                /\ last' = [call EXCEPT !.ret_ids = <<old>>,
                               !.effects = {"db_read", "db_write"}]
        ELSE /\ identifier.error = ""
             /\ Len(chats) < MaxChats
             /\ chats' = identifier.chats
             /\ last' = [call EXCEPT !.ret_ids = <<identifier.id>>,
                            !.effects = {"db_read", "db_write"}]

\* Mutant: CreateChat looks the name up among the deleted chats as well.
Mut_CreateChat_selects_deleted(sender, user_id, name, description) ==
  LET call == Call("CreateChat", sender, user_id, 0, name)
      named == {i \in 1..Len(chats) : chats[i].user_id = user_id /\ chats[i].name = name}
      identifier == insert(chats, user_id, name, description)
  IN /\ UNCHANGED <<outside, users, histories, interactions, pending, deletedEver>>
     /\ IF named # {}
        THEN /\ last' = [call EXCEPT !.ret_ids = <<CHOOSE i \in named : TRUE>>,
                            !.effects = {"db_read"}]
             /\ UNCHANGED chats
        ELSE /\ identifier.error = ""
             /\ Len(chats) < MaxChats
             /\ chats' = identifier.chats
             /\ last' = [call EXCEPT !.ret_ids = <<identifier.id>>,
                            !.effects = {"db_read", "db_write"}]

\* ChatInterface.CreateChat, run from its first to its last line.
ChatInterface_CreateChat(sender, user_id, name, description) ==
  LET call == Call("CreateChat", sender, user_id, 0, name)
      result == select_by_name(chats, user_id, name)
      identifier == insert(chats, user_id, name, description)
  IN /\ UNCHANGED <<outside, users, histories, interactions, pending, deletedEver>>
     /\ IF result # NoRow
        THEN /\ last' = [call EXCEPT !.ret_ids = <<result>>, !.effects = {"db_read"}]
             /\ UNCHANGED chats
        ELSE IF identifier.error # ""
        THEN /\ last' = Raised(call, identifier.error, {"db_read"}, << >>)
             /\ UNCHANGED chats
        ELSE /\ Len(chats) < MaxChats
             /\ chats' = identifier.chats
             /\ last' = [call EXCEPT !.ret_ids = <<identifier.id>>,
                            !.effects = {"db_read", "db_write"}]

\* ChatInterface.CreateChat of a second thread, up to the result of
\* select_by_name: an existing chat is returned at once, otherwise the call
\* goes on to the insert, and other calls may run in between.
ChatInterface_CreateChat_select(sender, user_id, name, description) ==
  LET call == Call("CreateChat", sender, user_id, 0, name)
      result == select_by_name(chats, user_id, name)
  IN /\ pending = NoPending
     /\ UNCHANGED <<outside, db, deletedEver>>
     /\ IF result # NoRow
        THEN /\ last' = [call EXCEPT !.ret_ids = <<result>>, !.effects = {"db_read"}]
             /\ UNCHANGED pending
        ELSE /\ pending' = [sender |-> sender, user_id |-> user_id, name |-> name,
                            description |-> description]
             /\ UNCHANGED last

\* ... and from the insert on; the exception of a refused insert is not caught.
ChatInterface_CreateChat_insert ==
  LET call == Call("CreateChat", pending.sender, pending.user_id, 0, pending.name)
      identifier == insert(chats, pending.user_id, pending.name, pending.description)
  IN /\ pending # NoPending
     /\ pending' = NoPending
     /\ UNCHANGED <<outside, users, histories, interactions, deletedEver>>
     /\ IF identifier.error # ""
        THEN /\ last' = Raised(call, identifier.error, {"db_read"}, << >>)
             /\ UNCHANGED chats
        ELSE /\ Len(chats) < MaxChats
             /\ chats' = identifier.chats
             /\ last' = [call EXCEPT !.ret_ids = <<identifier.id>>,
                            !.effects = {"db_read", "db_write"}]

\* daemon/http/query.py submit, by what the backend does with the request.
submit(outcome, reply) ==
  IF outcome = "reply" THEN [error |-> "", text |-> reply]
  ELSE [error |-> "RequestFailedError", text |-> << >>]

\* Mutant: AskQuestion stores the interaction itself after a reply.
Mut_AskQuestion_writes(sender, chat_id, user_id, question, outcome, reply) ==
  LET call == Call("AskQuestion", sender, user_id, chat_id, "")
      llm_response == submit(outcome, reply)
      room == /\ Len(interactions) < MaxInteractions
              /\ select_by_chat_id(histories, chat_id) # NoRow \/ Len(histories) < MaxHistories
  IN /\ UNCHANGED <<outside, users, chats, pending, deletedEver>>
     /\ IF llm_response.error # "" \/ ~room
        THEN /\ last' = Raised(call, llm_response.error, {"http"}, << >>)
             /\ UNCHANGED <<histories, interactions>>
        ELSE /\ histories' = history_write_histories(histories, chat_id, user_id, Now(histories))
             /\ interactions' = history_write_interactions(histories, interactions, chat_id,
                                                            question, llm_response.text,
                                                            Now(interactions))
             /\ last' = [call EXCEPT !.ret_text = llm_response.text,
                            !.effects = {"http", "db_write"}]

ChatInterface_AskQuestion(sender, chat_id, user_id, question, outcome, reply) ==
  LET call == Call("AskQuestion", sender, user_id, chat_id, "")
      llm_response == submit(outcome, reply)
  IN /\ UNCHANGED <<outside, db, pending, deletedEver>>
     /\ IF llm_response.error # ""
        THEN last' = Raised(call, llm_response.error, {"http"}, << >>)
        ELSE last' = [call EXCEPT !.ret_text = llm_response.text, !.effects = {"http"},
                        !.logs = <<AuditLoggerRecord("INFO", "Query executed successfully.",
                                                     user_id)>>]

(***************************************************************************)
(* daemon/http/query.py: one submit call, attempt by attempt               *)
(***************************************************************************)
\* submit up to session.post: the Retry of the adapter starts with its total.
submit_post ==
  /\ http.state # "sending"
  /\ http' = [HttpIdle EXCEPT !.state = "sending"]
  /\ UNCHANGED <<db, pending, last, deletedEver, term, source, server>>

\* The backend answers the request that is out. urlopen retries it while
\* Retry.is_retry holds and the Retry is not exhausted; an exhausted Retry, and
\* raise_for_status on the response that comes back, end submit with
\* RequestFailedError; any other response is parsed for data.text.
submit_answer(answer) ==
  LET left == http.total - 1
      failed == [http EXCEPT !.state = "raised", !.sent = Append(@, answer),
                   !.error = "RequestFailedError", !.message = RequestFailedMessage]
  IN /\ http.state = "sending"
     /\ UNCHANGED <<db, pending, last, deletedEver, term, source, server>>
     /\ IF is_retry(answer, http.total)
        THEN IF is_exhausted(left)
             THEN http' = failed
             ELSE http' = [http EXCEPT !.total = left, !.sent = Append(@, answer)]
        ELSE IF answer.status >= 400
        THEN http' = failed
        ELSE http' = [http EXCEPT !.state = "returned", !.sent = Append(@, answer),
                        !.ret = answer.text]

(***************************************************************************)
(* terminal/reader.py: the shell under pty.spawn, and the reads            *)
(***************************************************************************)
\* The command every run of the shell types, and the outputs it can show.
TypedCommand == <<"l">>

ShownOutputs == {<<"o">>, <<"ESC", "o">>}

\* The shell runs one command: the pty receives the command line and its
\* newline, the output, and the marker of the next prompt.
shell_command(output) ==
  /\ ~term.exited
  /\ term.typed < MaxCommands
  /\ term' = [term EXCEPT !.typed = @ + 1, !.shown = Append(@, output),
                !.buffer = @ \o TypedCommand \o <<"\n">> \o output \o <<"\n">>
                             \o PROMPT_MARKER,
                !.parsed = << >>, !.parse_state = "none"]
  /\ UNCHANGED <<db, pending, last, deletedEver, http, source, server>>

\* TerminalRecorder.read: os.read returns the first n bytes the pty holds.
TerminalRecorder_read(n) ==
  /\ ~term.exited
  /\ n \in 1..Len(term.buffer)
  /\ term' = [read([term EXCEPT !.buffer = SubSeq(@, n + 1, Len(@))],
                   SubSeq(term.buffer, 1, n))
                EXCEPT !.parsed = << >>, !.parse_state = "none"]
  /\ UNCHANGED <<db, pending, last, deletedEver, http, source, server>>

\* The end of start_capturing: the shell has exited and the last block, if
\* there is one, is written.
start_capturing_exit ==
  /\ ~term.exited
  /\ term.buffer = << >>
  /\ term' = [write_json_block(term) EXCEPT !.exited = TRUE, !.parsed = << >>,
                                            !.parse_state = "none"]
  /\ UNCHANGED <<db, pending, last, deletedEver, http, source, server>>

\* What one block of a log can hold between its braces: a command with its
\* output, the output of the exit of the shell, a command without output key,
\* and a text that is no JSON.
FoundBlocks ==
  {Token("members", <<"l">>, <<"o">>), Token("members", <<"l">>, <<"e", "x", "i", "t">>),
   Token("command_only", <<"l">>, << >>), Token("garbage", << >>, << >>)}

RECURSIVE log_text(_)
\* The text of a log of the blocks, each object on lines of its own: the
\* layout whose objects meet as "\n}\n{".
log_text(blocks) ==
  IF blocks = << >> THEN << >>
  ELSE <<LBrace, Newline, Head(blocks), Newline, RBrace, Newline>> \o log_text(Tail(blocks))

\* OUTPUT_FILE_NAME holds a log that this recorder did not write.
terminal_log_found(blocks) ==
  /\ term.typed = 0 /\ ~term.exited
  /\ term' = [RecorderInit EXCEPT !.file = log_text(blocks), !.found = blocks]
  /\ UNCHANGED <<db, pending, last, deletedEver, http, source, server>>

\* parse_terminal_output called on the log as it is now.
terminal_parse ==
  LET out == parse_terminal_output(term.file)
  IN /\ term.parse_state = "none"
     /\ term' = [term EXCEPT !.parsed = out.result,
                   !.parse_state = IF out.error = "" THEN "returned" ELSE out.error]
     /\ UNCHANGED <<db, pending, last, deletedEver, http, source, server>>

(***************************************************************************)
(* commands/chat.py: a question and its sources                            *)
(***************************************************************************)
\* The texts a source can hold; the empty one is a source not given.
QueryTexts == {<< >>, <<"q">>, <<"q", "q">>}

StdinTexts == {<< >>, <<"s">>, <<"s", "s">>}

AttachmentTexts == {<< >>, <<"a">>, <<"a", "a">>}

LastOutputTexts == {<< >>, <<"t">>, <<"t", "t">>}

\* The arguments _submit_question is entered with: the question, the stdin,
\* the attachment and the last terminal output of the command line.
submit_question_arguments(question, stdin, attachment, last_output) ==
  /\ source.call.state # "none" \/ source = NoSource
  /\ source' = [NoSource EXCEPT !.query = question, !.stdin = stdin,
                  !.attachment = attachment, !.last_output = last_output,
                  !.call.state = "called"]
  /\ UNCHANGED <<db, pending, last, deletedEver, http, term, server>>

\* Its call of _get_input_source on them.
get_input_source_call ==
  /\ source.call.state = "called"
  /\ source' = [source EXCEPT !.call = _get_input_source(source.query, source.stdin,
                                          source.attachment, source.last_output)]
  /\ UNCHANGED <<db, pending, last, deletedEver, http, term, server>>

(***************************************************************************)
(* dbus/server.py: serve                                                   *)
(***************************************************************************)
\* The next publish_object or register_service call of serve: it returns, or
\* it raises and serve leaves through its finally clause.
serve_startup(ok) ==
  LET step == ServeSteps[Len(server.calls) + 1]
  IN /\ server.state = "starting"
     /\ ~startup_done(server)
     /\ server' = IF ok
                  THEN [server EXCEPT !.calls = Append(@, step), !.on_bus = @ \cup {step}]
                  ELSE serve_finally([server EXCEPT !.state = "raised"])
     /\ UNCHANGED <<db, pending, last, deletedEver, http, term, source>>

\* loop = EventLoop(); loop.run(): the daemon serves calls from now on.
serve_loop_run ==
  /\ server.state = "starting"
  /\ startup_done(server)
  /\ server' = [server EXCEPT !.state = "running", !.loop_runs = @ + 1]
  /\ UNCHANGED <<db, pending, last, deletedEver, http, term, source>>

\* loop.run() returns, or raises: serve leaves through its finally clause.
serve_loop_exit(ok) ==
  /\ server.state = "running"
  /\ server' = serve_finally([server EXCEPT !.state = IF ok THEN "returned" ELSE "raised"])
  /\ UNCHANGED <<db, pending, last, deletedEver, http, term, source>>

(***************************************************************************)
(* dbus/interfaces.py                                                      *)
(***************************************************************************)
\* The ChatInterface.AskQuestion of dbus/interfaces.py: after submit it builds
\* HistoryManager(config, user, LocalHistory), one positional argument more than
\* HistoryManager.__init__ takes, so the call ends in TypeError before manager.write.
Legacy_AskQuestion(sender, outcome, reply) ==
  LET call == Call("LegacyAskQuestion", sender, "", 0, "")
      llm_response == submit(outcome, reply)
  IN /\ UNCHANGED <<outside, db, pending, deletedEver>>
     /\ IF llm_response.error # ""
        THEN last' = Raised(call, llm_response.error, {"http"}, << >>)
        ELSE last' = Raised(call, "TypeError", {"http"}, << >>)

(***************************************************************************)
(* dbus/interfaces/history.py                                              *)
(***************************************************************************)
_parse_interactions(ins, idx) ==
  [k \in 1..Len(idx) |->
     [question |-> ins[idx[k]].question, response |-> ins[idx[k]].response,
      created_at |-> ins[idx[k]].created_at]]

RECURSIVE _filter_history_with_keyword(_, _, _)
\* The interactions of the entries, in order, whose question or response holds keyword.
_filter_history_with_keyword(ins, entries, keyword) ==
  IF entries = << >> THEN << >>
  ELSE LET own == interactions_of(ins, entries[1])
           hits == {i \in Range(own) :
                      Contains(ins[i].question, keyword) \/ Contains(ins[i].response, keyword)}
       IN OrderedBy(hits, CreatedAt(ins)) \o
          _filter_history_with_keyword(ins, Tail(entries), keyword)

\* Mutant: GetHistory answers a user without history with an empty list.
Mut_GetHistory_empty_list(sender, user_id) ==
  LET call == Call("GetHistory", sender, user_id, 0, "")
      history_entries == history_read(histories, user_id)
  IN /\ UNCHANGED <<outside, db, pending, deletedEver>>
     /\ IF history_entries = << >>
        THEN last' = [call EXCEPT !.effects = {"db_read"}]
        ELSE last' = [call EXCEPT !.effects = {"db_read"},
                        !.ret_hist = _parse_interactions(interactions,
                                       interactions_of(interactions, history_entries[1]))]

HistoryInterface_GetHistory(sender, user_id) ==
  LET call == Call("GetHistory", sender, user_id, 0, "")
      history_entries == history_read(histories, user_id)
  IN /\ UNCHANGED <<outside, db, pending, deletedEver>>
     /\ IF history_entries = << >>
        THEN last' = Raised(call, "HistoryNotAvailable", {"db_read"}, << >>)
        ELSE last' = [call EXCEPT !.effects = {"db_read"},
                        !.ret_hist = _parse_interactions(interactions,
                                       interactions_of(interactions, history_entries[1]))]

HistoryInterface_GetFirstConversation(sender, user_id) ==
  LET call == Call("GetFirstConversation", sender, user_id, 0, "")
      history_entries == history_read(histories, user_id)
      own == interactions_of(interactions, history_entries[1])
  IN /\ UNCHANGED <<outside, db, pending, deletedEver>>
     /\ IF history_entries = << >>
        THEN last' = Raised(call, "HistoryNotAvailable", {"db_read"}, << >>)
        ELSE last' = [call EXCEPT !.effects = {"db_read"},
                        !.ret_hist = _parse_interactions(interactions,
                                       SubSeq(own, 1, IF Len(own) > 0 THEN 1 ELSE 0))]

HistoryInterface_GetLastConversation(sender, user_id) ==
  LET call == Call("GetLastConversation", sender, user_id, 0, "")
      history_entries == history_read(histories, user_id)
      own == interactions_of(interactions, history_entries[1])
  IN /\ UNCHANGED <<outside, db, pending, deletedEver>>
     /\ IF history_entries = << >>
        THEN last' = Raised(call, "HistoryNotAvailable", {"db_read"}, << >>)
        ELSE last' = [call EXCEPT !.effects = {"db_read"},
                        !.ret_hist = _parse_interactions(interactions,
                                       SubSeq(own, IF Len(own) > 0 THEN Len(own) ELSE 1, Len(own)))]

HistoryInterface_GetFilteredConversation(sender, user_id, filter) ==
  LET call == [Call("GetFilteredConversation", sender, user_id, 0, "") EXCEPT !.filter = filter]
      history_entries == history_read(histories, user_id)
  IN /\ UNCHANGED <<outside, db, pending, deletedEver>>
     /\ IF history_entries = << >>
        THEN last' = Raised(call, "HistoryNotAvailable", {"db_read"}, << >>)
        ELSE last' = [call EXCEPT !.effects = {"db_read"},
                        !.logs = <<LogRecord("INFO", FALSE, "Filtering the user history",
                                             user_id, "")>>,
                        !.ret_hist = _parse_interactions(interactions,
                                       _filter_history_with_keyword(interactions,
                                                                    history_entries, filter))]

HistoryInterface_ClearHistory(sender, user_id) ==
  LET call == Call("ClearHistory", sender, user_id, 0, "")
      cleared == history_clear_histories(histories, user_id, Now(histories))
  IN /\ UNCHANGED <<outside, users, chats, pending, deletedEver>>
     /\ histories' = cleared
     /\ interactions' = history_clear_interactions(histories, interactions, user_id,
                                                  Now(interactions))
     /\ last' = [call EXCEPT !.effects = {"db_write"},
                    !.logs = <<LogRecord("INFO", TRUE, "Clearing history entries for user.",
                                         user_id, "")>>]

HistoryInterface_WriteHistory(sender, chat_id, user_id, question, response) ==
  LET call == Call("WriteHistory", sender, user_id, chat_id, "")
  IN /\ Len(interactions) < MaxInteractions
     /\ select_by_chat_id(histories, chat_id) # NoRow \/ Len(histories) < MaxHistories
     /\ UNCHANGED <<outside, users, chats, pending, deletedEver>>
     /\ histories' = history_write_histories(histories, chat_id, user_id, Now(histories))
     /\ interactions' = history_write_interactions(histories, interactions, chat_id,
                                                    question, response, Now(interactions))
     /\ last' = [call EXCEPT !.effects = {"db_read", "db_write"},
                    !.logs = <<LogRecord("INFO", TRUE, "Wrote a new entry to the user history",
                                         user_id, "")>>]

(***************************************************************************)
(* The daemon serves any call of any connection.                           *)
(***************************************************************************)
ChatIds == 1..MaxChats

\* The user interface and the authorization wrapper.
NextAuth ==
  \/ \E s \in Senders, uid \in Uids, busOk \in BOOLEAN, mapOk \in BOOLEAN :
       GetUserId(s, uid, busOk, mapOk)
  \/ \E s \in Senders, u \in UserIds, busOk \in BOOLEAN, mapOk \in BOOLEAN :
       ProtectedMethod(s, u, busOk, mapOk)

\* The chat interface, called by the connections S for the users U with the
\* chat names N and the descriptions D.
NextChat(S, U, N, D) ==
  \/ \E s \in S, u \in U : ChatInterface_GetAllChatFromUser(s, u)
  \/ \E s \in S, u \in U : ChatInterface_DeleteAllChatForUser(s, u)
  \/ \E s \in S, u \in U, n \in N : ChatInterface_DeleteChatForUser(s, u, n)
  \/ \E s \in S, u \in U : ChatInterface_GetLatestChatFromUser(s, u)
  \/ \E s \in S, u \in U, n \in N : ChatInterface_GetChatId(s, u, n)
  \/ \E s \in S, u \in U, n \in N, d \in D : ChatInterface_CreateChat(s, u, n, d)

\* A CreateChat call that runs concurrently with the other calls.
NextRace(S, U, N, D) ==
  \/ \E s \in S, u \in U, n \in N, d \in D : ChatInterface_CreateChat_select(s, u, n, d)
  \/ ChatInterface_CreateChat_insert

\* The two AskQuestion methods.
NextAsk(S, U, Q, R) ==
  \/ \E s \in S, c \in ChatIds, u \in U, q \in Q, o \in SubmitOutcomes, r \in R :
       ChatInterface_AskQuestion(s, c, u, q, o, r)
  \/ \E s \in S, o \in SubmitOutcomes, r \in R : Legacy_AskQuestion(s, o, r)

\* The history interface.
NextHistory(S, U, Q, R, K) ==
  \/ \E s \in S, u \in U : HistoryInterface_GetHistory(s, u)
  \/ \E s \in S, u \in U : HistoryInterface_GetFirstConversation(s, u)
  \/ \E s \in S, u \in U : HistoryInterface_GetLastConversation(s, u)
  \/ \E s \in S, u \in U, k \in K : HistoryInterface_GetFilteredConversation(s, u, k)
  \/ \E s \in S, u \in U : HistoryInterface_ClearHistory(s, u)
  \/ \E s \in S, c \in ChatIds, u \in U, q \in Q, r \in R :
       HistoryInterface_WriteHistory(s, c, u, q, r)

\* The chat interface under concurrent CreateChat calls.
Next ==
  \/ NextChat({"s1"}, UserIds, Names, {"d1"})
  \/ NextRace({"s1"}, {"U1"}, {"a"}, {"d2"})

Spec == Init /\ [][Next]_vars

\* The authorization wrapper.
SpecAuth == Init /\ [][NextAuth]_vars

\* Every method of the three interfaces, called by every connection with the
\* user id "U1".
NextCallers ==
  \/ \E s \in Senders : GetUserId(s, SenderUid[s], TRUE, TRUE)
  \/ NextChat(Senders, {"U1"}, {"a"}, {"d1"})
  \/ NextAsk(Senders, {"U1"}, {<<"a">>}, {<<"a">>})
  \/ NextHistory(Senders, {"U1"}, {<<"a">>}, {<<"a">>}, {<<"a">>})

SpecCallers == Init /\ [][NextCallers]_vars

\* Questions asked while chats are created and deleted and the history is written.
NextQuestions ==
  \/ ChatInterface_CreateChat("s1", "U1", "a", "d1")
  \/ ChatInterface_DeleteChatForUser("s1", "U1", "a")
  \/ NextAsk({"s1"}, UserIds, {<<"a">>}, Responses)
  \/ \E c \in ChatIds : HistoryInterface_WriteHistory("s1", c, "U1", <<"a">>, <<"a">>)

SpecQuestions == Init /\ [][NextQuestions]_vars

\* Chats and the history.
NextStore ==
  \/ ChatInterface_CreateChat("s1", "U1", "a", "d1")
  \/ ChatInterface_DeleteChatForUser("s1", "U1", "a")
  \/ NextHistory({"s1"}, {"U1"}, Questions, {<<"a">>}, Keywords)

SpecHistory == Init /\ [][NextStore]_vars

\* One user writes into the histories of several chats, clears and reads.
NextClear ==
  \/ ChatInterface_CreateChat("s1", "U1", "a", "d1")
  \/ \E c \in ChatIds : HistoryInterface_WriteHistory("s1", c, "U1", <<"a">>, <<"a">>)
  \/ \E u \in UserIds : HistoryInterface_ClearHistory("s1", u)
  \/ \E u \in UserIds : HistoryInterface_GetHistory("s1", u)
  \/ \E u \in UserIds : HistoryInterface_GetFirstConversation("s1", u)
  \/ \E u \in UserIds : HistoryInterface_GetLastConversation("s1", u)

SpecClear == Init /\ [][NextClear]_vars

\* The HTTP client against a backend that answers as it likes.
NextSubmit ==
  \/ submit_post
  \/ \E answer \in BackendAnswers : submit_answer(answer)

SpecSubmit == Init /\ [][NextSubmit]_vars

\* The terminal capture: the shell, the recorder's reads and the parser.
NextTerminal ==
  \/ \E output \in ShownOutputs : shell_command(output)
  \/ \E n \in 1..MaxChunk : TerminalRecorder_read(n)
  \/ start_capturing_exit
  \/ terminal_parse

SpecTerminal == Init /\ [][NextTerminal]_vars

\* Questions asked with every combination of sources.
NextSource ==
  \/ \E question \in QueryTexts, stdin \in StdinTexts, attachment \in AttachmentTexts,
        last_output \in LastOutputTexts :
       submit_question_arguments(question, stdin, attachment, last_output)
  \/ get_input_source_call

SpecSource == Init /\ [][NextSource]_vars

\* The daemon from the start of serve to its end; it answers calls while the
\* event loop runs.
NextServe ==
  \/ \E ok \in BOOLEAN : serve_startup(ok)
  \/ serve_loop_run
  \/ \E ok \in BOOLEAN : serve_loop_exit(ok)
  \/ server.state = "running" /\ NextChat({"s1"}, {"U1"}, {"a"}, Descriptions)

SpecServe == Init /\ [][NextServe]_vars

\* The chats of one user, with deletions that can fail.
NextDeleteAll ==
  \/ NextChat({"s1"}, {"U1"}, Names, {"d1"})
  \/ \E done \in 0..(MaxChats - 1) : ChatInterface_DeleteAllChatForUser_raises("s1", "U1", done)

SpecDeleteAll == Init /\ [][NextDeleteAll]_vars

\* The parser on logs of up to MaxBlocks blocks, well-formed or not.
NextParse ==
  \/ \E n \in 1..MaxBlocks : \E blocks \in [1..n -> FoundBlocks] : terminal_log_found(blocks)
  \/ terminal_parse

SpecParse == Init /\ [][NextParse]_vars

(***************************************************************************)
(* Properties.                                                             *)
(***************************************************************************)
\* The user id the session manager gives to the connection of a call.
SenderUuid(call) == get_user_id(users, SenderUid[call.sender]).uuid

\* The chat and history methods that take a user_id.
UserIdMethods ==
  {"GetAllChatFromUser", "CreateChat", "GetChatId", "GetLatestChatFromUser",
   "DeleteChatForUser", "DeleteAllChatForUser", "AskQuestion", "GetHistory",
   "GetFirstConversation", "GetLastConversation", "GetFilteredConversation",
   "ClearHistory", "WriteHistory"}

\* C1: a chat or history method called with a user_id that is not the user id
\* of the caller's unix uid fails with a permission error and has no side
\* effect: it reads and writes no row and sends no HTTP request.
C1_ForeignUserIdDenied ==
  (last.method \in UserIdMethods /\ SenderUuid(last) # last.user_id)
    => (last.error = "PermissionError" /\ last.effects = {})

\* C2: when the bus daemon does not answer for the sender's uid, or (for a
\* user UUID) the session manager does not map the uid, the call ends in
\* PermissionError and the body of the protected method has not run.
C2_FailsClosed ==
  (/\ last.method \in {"GetUserId", "ProtectedMethod"}
   /\ ~last.bus_ok \/ (last.method = "ProtectedMethod" /\ ~last.map_ok))
    => (last.error = "PermissionError" /\ "body" \notin last.effects)

C2_Witness ==
  /\ last.method = "ProtectedMethod"
  /\ last.bus_ok /\ ~last.map_ok
  /\ last.error = "PermissionError"

\* C3: GetUserId returns a user id only to a sender whose unix uid is the
\* effective_uid of the call; for any other sender it raises PermissionError
\* without the session manager being called: the users table is not read
\* and not changed.
C3_GetUserIdOnlyForOwnUid ==
  [][last'.method = "GetUserId" =>
       /\ last'.ret # "" => ToString(SenderUid[last'.sender]) = last'.user_id
       /\ ToString(SenderUid[last'.sender]) # last'.user_id =>
            (last'.error = "PermissionError" /\ last'.effects = {} /\ users' = users)]_vars

C3_Witness ==
  /\ last.method = "GetUserId"
  /\ ToString(SenderUid[last.sender]) # last.user_id
  /\ last.bus_ok
  /\ last.error = "PermissionError"
  /\ users # << >>
  /\ \E uid \in Uids : ToString(uid) = last.user_id /\ UserRow(users, uid) = NoRow

\* C4: every call denied with PermissionError has logged a warning flagged as
\* audit that carries the claimed id and the real id of the sender.
C4_EveryDenialAudited ==
  last.error = "PermissionError" =>
    \E k \in 1..Len(last.logs) :
      /\ last.logs[k].level = "WARNING"
      /\ last.logs[k].audit
      /\ last.logs[k].claimed = last.user_id
      /\ last.logs[k].real # ""

\* C5: in every reachable state there is at most one live chat for each
\* pair (user_id, name).
C5_OneLiveChatPerName ==
  \A i, j \in 1..Len(chats) :
    (/\ IsLive(chats[i]) /\ IsLive(chats[j])
     /\ chats[i].user_id = chats[j].user_id
     /\ chats[i].name = chats[j].name) => i = j

C5_Witness ==
  \E i, j \in 1..Len(chats) :
    /\ i < j
    /\ chats[i].user_id = chats[j].user_id /\ chats[i].name = chats[j].name
    /\ ~IsLive(chats[i]) /\ IsLive(chats[j])
    /\ last.method = "CreateChat" /\ last.ret_ids = <<j>>

\* C6: every CreateChat call, also one whose lookup and insert were interleaved
\* with those of another CreateChat call for the same name, returns the id of
\* the one live chat (user_id, name).
C6_RacingCreateChatReturnsId ==
  last.method = "CreateChat" =>
    /\ last.error = ""
    /\ last.ret_ids = <<select_by_name(chats, last.user_id, last.name)>>

\* C7: a CreateChat call that finds a live chat (user_id, name) returns the id
\* of that chat and leaves the chats table as it was: no row is inserted, the
\* description and the timestamps of the chat stay.
C7_CreateChatExistingUnchanged ==
  [][(/\ last'.method = "CreateChat"
      /\ pending' = pending
      /\ select_by_name(chats, last'.user_id, last'.name) # NoRow)
       => /\ last'.error = ""
          /\ last'.ret_ids = <<select_by_name(chats, last'.user_id, last'.name)>>
          /\ chats' = chats]_vars

C7_Witness ==
  /\ last.method = "CreateChat"
  /\ last.error = ""
  /\ last.effects = {"db_read"}
  /\ Len(last.ret_ids) = 1
  /\ chats[last.ret_ids[1]].description = "d1"
  /\ Len(chats) = MaxChats

\* C8: a chat that DeleteChatForUser or DeleteAllChatForUser has soft-deleted
\* is in no later result of GetAllChatFromUser, GetChatId or
\* GetLatestChatFromUser.
C8_DeletedNeverReturned ==
  last.method \in {"GetAllChatFromUser", "GetChatId", "GetLatestChatFromUser"} =>
    \A k \in 1..Len(last.ret_ids) : last.ret_ids[k] \notin deletedEver

C8_Witness ==
  /\ last.method = "GetAllChatFromUser"
  /\ last.ret_ids # << >>
  /\ \E c \in deletedEver : chats[c].user_id = last.user_id

C10_AskQuestionChecksChat ==
  (/\ last.method = "AskQuestion"
   /\ ~(/\ last.chat_id \in 1..Len(chats)
         /\ IsLive(chats[last.chat_id])
         /\ chats[last.chat_id].user_id = last.user_id))
    => (last.error = "ChatNotFoundError" /\ "http" \notin last.effects)

\* The attempts of the submit call that were followed by another attempt.
Retried == IF http.state = "sending" THEN 1..Len(http.sent) ELSE 1..(Len(http.sent) - 1)

\* The answers of the backend were all 503 up to the n-th.
All503(n) == \A k \in 1..n : http.sent[k] = Answer(503, FALSE, "")

C12_ThreeFailuresThenReply ==
  /\ (Len(http.sent) = 3 /\ All503(3)) => http.state = "sending"
  /\ (Len(http.sent) = 4 /\ All503(3) /\ http.sent[4] = Answer(200, FALSE, "ok"))
       => (http.state = "returned" /\ http.ret = "ok")
  /\ (Len(http.sent) = 4 /\ All503(4))
       => (http.state = "raised" /\ http.error = "RequestFailedError")

C12_Witness ==
  /\ Len(http.sent) = 4 /\ All503(3) /\ http.sent[4] = Answer(200, FALSE, "ok")
  /\ http.state = "returned"

\* C13: a response with a 4xx status is never retried: it is the only attempt
\* of its submit call, which raises RequestFailedError with the fixed message;
\* and a submit call that raises raises RequestFailedError.
C13_ClientErrorNeverRetried ==
  /\ (Len(http.sent) >= 1 /\ http.sent[1].status \in 400..499)
       => /\ Len(http.sent) = 1
          /\ http.state = "raised"
          /\ http.error = "RequestFailedError"
          /\ http.message = RequestFailedMessage
  /\ http.state = "raised" => http.error = "RequestFailedError"

\* The live interactions of all the histories of a user, oldest first.
list_for_user(user_id) ==
  OrderedBy({i \in 1..Len(interactions) :
               /\ IsLive(interactions[i])
               /\ histories[interactions[i].history_id].user_id = user_id},
            CreatedAt(interactions))

\* C14: GetHistory returns every live interaction of the user, of all the
\* chats written to, oldest first; it raises only when there is none.
C14_GetHistoryReturnsAll ==
  last.method = "GetHistory" =>
    IF list_for_user(last.user_id) = << >>
    THEN last.error = "HistoryNotAvailable"
    ELSE /\ last.error = ""
         /\ last.ret_hist = _parse_interactions(interactions, list_for_user(last.user_id))

\* C15: GetFirstConversation returns exactly one entry, the oldest live
\* interaction of the user over all chats, and GetLastConversation exactly
\* one entry, the newest.
C15_FirstAndLastOverAllChats ==
  LET all == list_for_user(last.user_id)
  IN /\ (last.method = "GetFirstConversation" /\ all # << >>) =>
          (last.error = "" /\ last.ret_hist = _parse_interactions(interactions, <<all[1]>>))
     /\ (last.method = "GetLastConversation" /\ all # << >>) =>
          (last.error = "" /\ last.ret_hist = _parse_interactions(interactions, <<all[Len(all)]>>))

\* The three reads of the whole history.
HistoryReads == {"GetHistory", "GetFirstConversation", "GetLastConversation"}

filter_for_user(user_id, keyword) ==
  LET all == list_for_user(user_id)
  IN OrderedBy({i \in Range(all) : \/ Contains(interactions[i].question, keyword)
                                    \/ Contains(interactions[i].response, keyword)},
               CreatedAt(interactions))

\* C17: GetFilteredConversation returns exactly the live interactions of the
\* user whose question or response holds the keyword, in the order in which
\* they were stored, one entry for every interaction.
C17_FilteredInStoredOrder ==
  (last.method = "GetFilteredConversation" /\ last.error = "") =>
    last.ret_hist = _parse_interactions(interactions,
                                        filter_for_user(last.user_id, last.filter))


\* The entry parse_terminal_output is to return for a recorded block.
entry_of(block) ==
  [command |-> clean_ansi_sequences(block.command),
   output |-> clean_ansi_sequences(block.output)]

\* C18: once the bytes of one command (the command line and its newline, the
\* output, the prompt marker) have all been read, in whatever chunks, the
\* parser returns exactly one block, its command the typed command and its
\* output the command's output.
C18_OneCommandOneBlock ==
  (term.typed = 1 /\ term.buffer = << >> /\ term.parse_state # "none") =>
    /\ term.parse_state = "returned"
    /\ term.parsed = <<entry_of([command |-> TypedCommand, output |-> term.shown[1]])>>

\* C19: for a log of N >= 1 blocks written by write_json_block, none with the
\* output "exit", parse_terminal_output returns N entries, in file order, whose
\* command and output are those recorded.
C19_ParseReturnsRecordedBlocks ==
  (term.parse_state # "none" /\ Len(term.blocks) >= 1) =>
    /\ term.parse_state = "returned"
    /\ term.parsed = [k \in 1..Len(term.blocks) |-> entry_of(term.blocks[k])]


\* The rules of the question, in the order they are tried: the sources a rule
\* needs and the text it gives.
InputRules(q, s, a, t) ==
  <<[needs |-> {q, s, a, t}, gives |-> q \o Space \o a],
    [needs |-> {q, a, t}, gives |-> q \o Space \o a \o Space \o t],
    [needs |-> {q, t}, gives |-> q \o Space \o t],
    [needs |-> {q, a}, gives |-> q \o Space \o a],
    [needs |-> {s, a}, gives |-> s \o Space \o a],
    [needs |-> {s, q}, gives |-> q \o Space \o s],
    [needs |-> {q}, gives |-> q],
    [needs |-> {s}, gives |-> s],
    [needs |-> {a}, gives |-> a],
    [needs |-> {t}, gives |-> t]>>

\* The rules whose sources are all non-empty.
MatchingRules(rules) == {k \in 1..Len(rules) : << >> \notin rules[k].needs}

\* C20: _get_input_source returns what the first matching rule gives, and
\* raises ValueError with its message when the four sources are empty.
C20_FirstMatchingRule ==
  LET rules == InputRules(source.query, source.stdin, source.attachment, source.last_output)
      matching == MatchingRules(rules)
      first == CHOOSE k \in matching : \A j \in matching : k <= j
  IN source.call.state \in {"returned", "raised"} =>
       IF matching = {}
       THEN /\ source.call.state = "raised"
            /\ source.call.error = "ValueError"
            /\ source.call.message = NoInputMessage
       ELSE /\ source.call.state = "returned"
            /\ source.call.ret = rules[first].gives

\* Query, attachment and terminal output given without stdin: the second rule
\* answered, though the third and the fourth match as well.
C20_Witness ==
  /\ source.call.state = "returned"
  /\ source.query # << >> /\ source.attachment # << >> /\ source.last_output # << >>
  /\ source.stdin = << >>
  /\ source.call.ret = source.query \o Space \o source.attachment \o Space \o source.last_output


\* C21: serve calls SYSTEM_BUS.disconnect exactly once on every exit path (the
\* loop returned, the loop raised, a publish or register call raised), and not
\* before it leaves.
C21_DisconnectOnceOnExit ==
  IF server.state \in {"returned", "raised"}
  THEN server.disconnects = 1
  ELSE server.disconnects = 0

\* serve left because register_service raised, and disconnected.
C21_Witness ==
  /\ server.state = "raised"
  /\ Len(server.calls) = 2
  /\ server.loop_runs = 0
  /\ server.disconnects = 1

\* C27: the event loop is run only after the two objects are published and the
\* two names registered; when one of these calls fails the loop is never run
\* and serve ends with the bus disconnected.
C27_StartupTransactional ==
  /\ server.loop_runs > 0 => server.calls = ServeSteps
  /\ (server.state = "raised" /\ server.calls # ServeSteps) =>
       /\ server.loop_runs = 0
       /\ ~server.connected
       /\ server.on_bus = {}

\* The second register_service raised: the loop was not run and nothing of
\* the first three calls is left on the bus.
C27_Witness ==
  /\ server.state = "raised"
  /\ server.calls = SubSeq(ServeSteps, 1, 3)
  /\ server.loop_runs = 0
  /\ ~server.connected


\* The channels a record is written to.
channels_of(record) == {handler_channel(handler) : handler \in handled_by(record)}

\* C22: every record a call writes goes to one channel, chosen by its audit
\* flag: the audit stream when the flag is set, the operational log when not.
C22_RoutedByAuditFlag ==
  \A i \in 1..Len(last.logs) :
    handled_by(last.logs[i]) # {} =>
      channels_of(last.logs[i]) = {IF last.logs[i].audit THEN "audit" ELSE "operational"}


\* C23: a chat that is soft-deleted stays soft-deleted in every step, and a
\* CreateChat call that returns gives the id of a chat that was never deleted:
\* after DeleteChatForUser(u, n), CreateChat(u, n, d) inserts a new row.
C23_DeletedAtNeverCleared ==
  [][/\ \A i \in 1..Len(chats) :
          ~IsLive(chats[i]) => (i <= Len(chats') /\ ~IsLive(chats'[i]))
     /\ (last'.method = "CreateChat" /\ last'.error = "" /\ last'.ret_ids # << >>) =>
          /\ last'.ret_ids[1] \notin deletedEver'
          /\ IsLive(chats'[last'.ret_ids[1]])]_vars

\* CreateChat has returned a new chat of a name that a deleted chat of the
\* same user bears.
C23_Witness ==
  /\ last.method = "CreateChat"
  /\ last.error = ""
  /\ last.effects = {"db_read", "db_write"}
  /\ \E c \in deletedEver :
       /\ c # last.ret_ids[1]
       /\ chats[c].user_id = last.user_id
       /\ chats[c].name = last.name
       /\ ~IsLive(chats[c])
       /\ chats[last.ret_ids[1]].name = last.name


\* C24: DeleteAllChatForUser(u) raises ChatNotFound and changes nothing when u
\* has no live chat; otherwise it returns with every live chat of u deleted,
\* or it raises and no chat of u has been deleted by the call.
C24_DeleteAllAllOrNothing ==
  [][last'.method = "DeleteAllChatForUser" =>
       IF select_all_by_id(chats, last'.user_id) = << >>
       THEN last'.error = "ChatNotFoundError" /\ db' = db
       ELSE \/ last'.error = "" /\ select_all_by_id(chats', last'.user_id) = << >>
            \/ last'.error # "" /\ chats' = chats]_vars


\* C25: with query, stdin and attachment given and no terminal output,
\* _get_input_source returns query and attachment and renders the warning that
\* stdin is ignored; and whenever it returns a question that leaves a non-empty
\* stdin out, it has rendered the warning.
C25_WarnsWhenStdinDropped ==
  source.call.state = "returned" =>
    /\ (/\ source.query # << >> /\ source.stdin # << >> /\ source.attachment # << >>
        /\ source.last_output = << >>) =>
         /\ source.call.ret = source.query \o Space \o source.attachment
         /\ source.call.warned
    /\ (source.stdin # << >> /\ ~Contains(source.call.ret, source.stdin)) =>
         source.call.warned


\* Whether the parser is to accept the block.
WellFormed(block) == block.kind = "members"

\* The blocks before the first malformed one.
AcceptedPrefix(blocks) ==
  LET bad == {k \in 1..Len(blocks) : ~WellFormed(blocks[k])}
  IN IF bad = {} THEN blocks
     ELSE SubSeq(blocks, 1, (CHOOSE k \in bad : \A j \in bad : k <= j) - 1)

\* The entries of the blocks, those of an exit left out.
EntriesOf(blocks) ==
  LET kept == SelectSeq(blocks, LAMBDA b : b.output # <<"e", "x", "i", "t">>)
  IN [k \in 1..Len(kept) |-> entry_of(kept[k])]

\* C26: parse_terminal_output on a log with a malformed block (no JSON, or a
\* JSON object without command or output) returns the entries of the blocks
\* before it, raises nothing and leaves the log as it is.
C26_StopsAtMalformedBlock ==
  [][(term.parse_state = "none" /\ term'.parse_state # "none" /\ term.found # << >>) =>
       /\ term'.parse_state = "returned"
       /\ term'.parsed = EntriesOf(AcceptedPrefix(term.found))
       /\ term'.file = term.file]_vars


\* The bytes a step has read from the pty.
ChunkRead == SubSeq(term.buffer, 1, Len(term.buffer) - Len(term'.buffer))

\* C28: after a read whose chunk holds the prompt marker the output buffer of
\* the recorder is empty, whatever the chunks were: no byte received before
\* the marker is left for the output of a later block.
C28_OutputEmptyAfterMarker ==
  [][(/\ term'.typed = term.typed
      /\ Len(term'.buffer) < Len(term.buffer)
      /\ Contains(ChunkRead, PROMPT_MARKER))
       => term'._current_output = << >>]_vars


RECURSIVE IsSubSeq(_, _)
\* Whether the entries of a are entries of b, in the same relative order.
IsSubSeq(a, b) ==
  IF a = << >> THEN TRUE
  ELSE IF b = << >> THEN FALSE
  ELSE IF Head(a) = Head(b) THEN IsSubSeq(Tail(a), Tail(b))
  ELSE IsSubSeq(a, Tail(b))

\* What GetHistory(user_id) returns in this state.
GetHistoryNow(user_id) ==
  LET history_entries == history_read(histories, user_id)
  IN IF history_entries = << >> THEN << >>
     ELSE _parse_interactions(interactions, interactions_of(interactions, history_entries[1]))

\* C29: what GetFilteredConversation(u, k) returns is a sub-sequence of what
\* GetHistory(u) returns in the same state, and with the empty keyword it is
\* the same list, also when the interactions of u are in several chats.
C29_FilteredWithinHistory ==
  (last.method = "GetFilteredConversation" /\ last.error = "") =>
    /\ IsSubSeq(last.ret_hist, GetHistoryNow(last.user_id))
    /\ last.filter = << >> => last.ret_hist = GetHistoryNow(last.user_id)


\* Whether chat_id is a live chat of user_id.
OwnsLiveChat(chat_id, user_id) ==
  /\ chat_id \in 1..Len(chats)
  /\ IsLive(chats[chat_id])
  /\ chats[chat_id].user_id = user_id

\* C30: a WriteHistory call whose chat_id is not a live chat of its user_id (a
\* chat of another user, a soft-deleted chat, no chat at all) stores nothing.
C30_WriteHistoryOnlyOwnLiveChat ==
  [][(last'.method = "WriteHistory" /\ ~OwnsLiveChat(last'.chat_id, last'.user_id)) =>
       /\ interactions' = interactions
       /\ histories' = histories]_vars

====
